---- MODULE Spec2Model ----
(***************************************************************************)
(* A model of src/main.cpp: the cscope database loader (CS::CS with        *)
(* initHeader, initTrailer, initSymbols, fileLoadSymbols,                  *)
(* loadSymbolsInFile and getLine), the call graph it builds (CSDB) and the *)
(* depth-bounded queries main runs on it (getCallersRec, getCalleesRec).   *)
(*                                                                         *)
(* Bytes are one-character strings, a C string is the sequence of its      *)
(* bytes before the terminating NUL, and offsets are 0-based as in the     *)
(* code (byte off of the buffer is data[off + 1]).                         *)
(***************************************************************************)
EXTENDS Integers, Sequences, FiniteSets, TLC

VARIABLES
    data,        \* the mapped database file (CS::CS data, st.st_size = Len(data))
    pc,          \* where the program is
    hdr,         \* CS::_hdr
    trailer,     \* CS::_trailer
    off,         \* pos.off: the cursor of initSymbols, shared by pointer with its callees
    isLine,      \* line of initSymbols
    flLine,      \* line of fileLoadSymbols
    lsLine,      \* line of loadSymbolsInFile
    lineno,      \* lineno of fileLoadSymbols / loadSymbolsInFile
    file,        \* file of initSymbols: the CSFile being decoded (index in fileObjs, 0 = none)
    fileObjs,    \* every CSFile allocated by newFile, in allocation order
    defs,        \* every CSFuncDef allocated by loadSymbolsInFile, in allocation order
    files,       \* CS::files (indexes into fileObjs)
    db,          \* *CS::db (the CSDB), a sequence of entries; empty until CS::CS fills it
    args,        \* main: func_name, depth, do_callers, do_callees
    stack,       \* the activation records of getCallersRec / getCalleesRec
    ret,         \* the string returned by the outermost getCallersRec / getCalleesRec
    output,      \* what main has written to out
    logging,     \* the global logging: true when argv names an output file
    spinning,    \* the global spinning
    spinnerThread \* the global spinnerThread: what the std::thread object holds

vars == <<data, pc, hdr, trailer, off, isLine, flLine, lsLine, lineno, file,
          fileObjs, defs, files, db, args, stack, ret, output,
          logging, spinning, spinnerThread>>

spinVars == <<logging, spinning, spinnerThread>>

loadVars == <<hdr, trailer, off, isLine, flLine, lsLine, lineno, file,
              fileObjs, defs, files>>

queryVars == <<args, stack, ret, output>>

(***************************************************************************)
(* Bounds of the model.                                                    *)
(***************************************************************************)
\* The longest body (in symbol-region items) of the systematically enumerated inputs.
MaxItems == 3
\* The largest traversal depth main is given.
MaxDepth == 3
\* The most call records under one definition in the enumerated graph inputs.
MaxCallees == 2
\* sizeof(line), sizeof(buf): 1024 in the source, scaled down here; the
\* over-long record of the inputs is always one byte longer than this.
LineBufLen == 20

(***************************************************************************)
(* Bytes.                                                                  *)
(***************************************************************************)
NL == "\n"
TAB == "\t"
NUL == "NUL"
EOF == "EOF"
CS_FN_DEF == "$"
\* The backquote byte (a string of the model cannot hold that character).
CS_FN_CALL == "BQ"
cs_marks == {"@", CS_FN_DEF, CS_FN_CALL, "}", "#", ")", "~", "=", ";",
             "c", "e", "g", "l", "m", "p", "s", "t", "u"}
Digits == <<"0", "1", "2", "3", "4", "5", "6", "7", "8", "9">>

isMark(c) == c \in cs_marks
isspace(c) == c \in {" ", TAB, NL, "VT", "\f", "\r"}
isdigit(c) == \E i \in 1..10 : Digits[i] = c
DigitVal(c) == (CHOOSE i \in 1..10 : Digits[i] = c) - 1

\* s[i] of a C string: the terminating NUL sits right after the last byte.
At(s, i) == IF i <= Len(s) THEN s[i] ELSE NUL
Drop(s, n) == SubSeq(s, n + 1, Len(s))

RECURSIVE SkipWhile(_, _)
\* The loops while (isspace(c[0])) ++c (ws = TRUE) and while (c[0] ==  ) ++c (ws = FALSE).
SkipWhile(s, ws) ==
    IF s # <<>> /\ (IF ws THEN isspace(s[1]) ELSE s[1] = " ")
    THEN SkipWhile(Tail(s), ws) ELSE s

RECURSIVE DigitsValue(_, _)
DigitsValue(s, acc) ==
    IF s # <<>> /\ isdigit(s[1])
    THEN DigitsValue(Tail(s), acc * 10 + DigitVal(s[1])) ELSE acc

\* atoi / atol on the inputs of the model (no sign, no overflow).
atol(s) == DigitsValue(SkipWhile(s, TRUE), 0)

RECURSIVE Tokens(_, _)
\* The tokens successive strtok(.., " ") calls return.
Tokens(s, cur) ==
    IF s = <<>> THEN (IF cur = <<>> THEN <<>> ELSE <<cur>>)
    ELSE IF s[1] = " "
         THEN (IF cur = <<>> THEN <<>> ELSE <<cur>>) \o Tokens(Tail(s), <<>>)
         ELSE Tokens(Tail(s), Append(cur, s[1]))

(***************************************************************************)
(* The record cursor.                                                      *)
(***************************************************************************)
VALID(d, o) == o <= Len(d)
END(d, o) == o >= Len(d)
\* CH reads data[data_len] when off = data_len: one byte past the file. Every
\* input here is shorter than a page, so that byte is the zero fill of the
\* mapping last page.
CH(d, o) == IF VALID(d, o) THEN (IF o < Len(d) THEN d[o + 1] ELSE NUL) ELSE EOF

RECURSIVE ScanLine(_, _)
\* while (CH(pos) != EOF && CH(pos) != \n) ++pos->off;
ScanLine(d, o) == IF CH(d, o) # EOF /\ CH(d, o) # NL THEN ScanLine(d, o + 1) ELSE o

\* getLine(pos, buf, buf_len): the cursor after the call and the caller buffer.
\* (len = buf_len would store the NUL one past the buffer; no input has such a line.)
getLine(d, st, buf, buf_len) ==
    LET e == ScanLine(d, st)
        len == e - st
    IN  [off |-> e + 1,
         buf |-> IF END(d, e + 1) \/ len > buf_len THEN buf
                 ELSE SubSeq(d, st + 1, st + len)]

\* Whether getLine at offset st returns without copying.
GetLineFails(d, st, buf_len) ==
    LET e == ScanLine(d, st) IN END(d, e + 1) \/ e - st > buf_len

\* size_t subtraction: a result below zero wraps to an offset past every buffer.
SizeWrap == 1000000
SizeSub(a, b) == IF a >= b THEN a - b ELSE a - b + SizeWrap

(***************************************************************************)
(* The database files the model is run on.  A body is a sequence of items  *)
(* of the symbol region, rendered the way cscope writes them: a file       *)
(* record and its empty line; a line-number line opening a group, then a   *)
(* mark line and a line of non-symbol text per symbol, then the empty line *)
(* closing the group.                                                      *)
(***************************************************************************)
FileTab == <<"file", <<TAB, "@", "b">>>>      \* a file record as cscope writes it
FileBare == <<"file", <<"@", "c">>>>          \* a file record with no leading whitespace
FileNoPath == <<"file", <<TAB, "@">>>>        \* a file record with an empty path
Def(n) == <<"def", <<n>>>>
Call(n) == <<"call", <<n>>>>
Long == <<"long", <<>>>>                      \* a record longer than the line buffer

FirstFileLine == <<TAB, "@", "a">>
LineNoLine == <<"7", " ">>
TextLine == <<"(">>
LongLine == [i \in 1..(LineBufLen + 1) |-> "x"]
TrailerBytes == <<"1", NL, "v", NL, "1", NL, "a", NL, "0", NL, NL>>

RECURSIVE RenderItems(_, _)
\* The bytes of the items; open = a line-number group is open.
RenderItems(items, open) ==
    LET close == IF open THEN <<NL>> ELSE <<>> IN
    IF items = <<>> THEN close
    ELSE LET it == items[1] IN
         CASE it[1] = "file" ->
                close \o it[2] \o <<NL, NL>> \o RenderItems(Tail(items), FALSE)
           [] it[1] = "def" ->
                close \o LineNoLine \o <<NL, TAB, CS_FN_DEF>> \o it[2] \o <<NL>>
                      \o TextLine \o <<NL>> \o RenderItems(Tail(items), TRUE)
           [] it[1] = "call" ->
                (IF open THEN <<>> ELSE LineNoLine \o <<NL>>)
                      \o <<TAB, CS_FN_CALL>> \o it[2] \o <<NL>>
                      \o TextLine \o <<NL>> \o RenderItems(Tail(items), TRUE)
           [] OTHER ->
                LongLine \o <<NL>> \o RenderItems(Tail(items), open)

Digits3(n) == <<Digits[((n \div 100) % 10) + 1], Digits[((n \div 10) % 10) + 1],
                Digits[(n % 10) + 1]>>

GoodTag == <<"c", "s", "c", "o", "p", "e">>
BadTag == <<"c", "t", "a", "g", "s">>

\* A database file: the header line (tag, version, directory, trailer offset),
\* the symbol region (always opened by the file record of a.c) and the trailer.
Render(tag, items) ==
    LET region == FirstFileLine \o <<NL, NL>> \o RenderItems(items, FALSE)
        hlen == Len(tag) + 9
    IN  tag \o <<" ", "1", " ", "d", " ">> \o Digits3(hlen + Len(region)) \o <<NL>>
            \o region \o TrailerBytes

SeqsUpTo(S, n) == UNION {[1..k -> S] : k \in 0..n}

LoadItems == {FileTab, FileBare, Def("A"), Def("B"), Call("B"), Call("C"), Long}

\* Longer bodies: same-named definitions in one file and across files, repeated
\* call records, a call before the first definition of a later file, an
\* over-long record inside a group, a file record with an empty path.
LoadScenarios ==
    { <<Def("A"), Call("B"), Def("A"), Call("C")>>,
      <<Def("A"), Call("B"), FileTab, Def("A"), Call("C")>>,
      <<Def("A"), Call("B"), FileBare, Def("A"), Call("C")>>,
      <<Def("A"), Call("B"), Call("B"), Call("C"), Call("B")>>,
      <<Def("A"), FileTab, Call("C"), Def("B"), Call("C")>>,
      <<Def("A"), Long, Call("B"), Long>>,
      <<Def("A"), Call("B"), FileNoPath, Def("B"), Call("C")>>,
      <<FileNoPath, Def("A"), Call("B"), FileTab, Def("A"), Call("C")>>,
      <<Def("A"), Call("B"), Def("A"), Call("C"), FileTab, Def("A"), Call("A")>> }

LoadInputs ==
    {Render(tag, b) : tag \in {GoodTag, BadTag},
                      b \in SeqsUpTo(LoadItems, MaxItems) \cup LoadScenarios}

\* What an uninitialised line buffer may hold: nothing, text, a call record.
Garbage == {<<>>, <<"x">>, <<TAB, CS_FN_CALL, "C">>}

\* What the never-assigned _hdr.trailer of a heap-allocated CS may hold: an
\* offset before the symbol region, one inside the file, one past every file.
UninitOffsets == {0, 40, SizeWrap - 1}

\* The value of a member or local that was never assigned (no offset, count or
\* version of the inputs is negative).
Indeterminate == -1

NoArgs == [func_name |-> <<>>, depth |-> 0, do_callers |-> FALSE, do_callees |-> FALSE]

\* What spinnerThread holds: no thread (default-constructed, or joined), a
\* thread that runs spin, or a thread whose spin has returned and that has
\* not been joined. The last two are joinable.
NotAThread == "not-a-thread"
Running == "running"
Exited == "exited"
joinable(t) == t \in {Running, Exited}

InitState(d) ==
    /\ data = d
    /\ pc = "initHeader"
    /\ hdr = [version |-> Indeterminate, dir |-> Indeterminate,
              compression |-> Indeterminate, inverted_index |-> Indeterminate,
              prefix_match |-> Indeterminate, syms_start |-> Indeterminate,
              trailer |-> Indeterminate]
    /\ trailer = [n_viewpaths |-> Indeterminate, n_srcs |-> Indeterminate,
                  n_incs |-> Indeterminate]
    /\ off = 0
    /\ isLine = <<>>
    /\ flLine = <<>>
    /\ lsLine = <<>>
    /\ lineno = 0
    /\ file = 0
    /\ fileObjs = <<>>
    /\ defs = <<>>
    /\ files = <<>>
    /\ db = <<>>
    /\ args = NoArgs
    /\ stack = <<>>
    /\ ret = <<>>
    /\ output = <<>>
    /\ logging \in BOOLEAN
    /\ spinning = FALSE
    /\ spinnerThread = NotAThread

InitLoad == \E d \in LoadInputs : InitState(d)

(***************************************************************************)
(* CS::initHeader                                                          *)
(***************************************************************************)
IsPrefix(p, s) == Len(s) >= Len(p) /\ SubSeq(s, 1, Len(p)) = p

\* strncmp(tok, "cscope", strlen("cscope")) == 0
TagMatches(tok) == IsPrefix(GoodTag, tok)

RECURSIVE HeaderOptions(_, _)
\* The loop over the optional tokens: -c, -T, -q, or the trailer offset.
HeaderOptions(toks, h) ==
    IF toks = <<>> THEN h
    ELSE LET tok == toks[1] IN
         IF tok[1] = "-" /\ Len(tok) = 2
         THEN CASE tok[2] = "c" ->
                     HeaderOptions(Tail(toks), [h EXCEPT !.compression = TRUE])
                [] tok[2] = "T" ->
                     HeaderOptions(Tail(toks), [h EXCEPT !.prefix_match = TRUE])
                [] tok[2] = "q" ->
                     HeaderOptions(Tail(toks), [h EXCEPT !.inverted_index = TRUE])
                [] OTHER -> h
         ELSE [h EXCEPT !.trailer = atol(tok)]

\* The header fields initHeader assigns, given the header line it read. The
\* inputs all carry a version and a directory token.
ParseHeader(h, buf, syms_start) ==
    LET toks == Tokens(buf, <<>>)
        h1 == [h EXCEPT !.syms_start = syms_start]
    IN  IF ~TagMatches(toks[1]) THEN h1
        ELSE HeaderOptions(SubSeq(toks, 4, Len(toks)),
                           [h1 EXCEPT !.version = atol(toks[2]), !.dir = toks[3]])

InitHeader ==
    /\ pc = "initHeader"
    /\ \E g \in Garbage, u \in UninitOffsets :
         LET r == getLine(data, 0, g, LineBufLen)
             h == ParseHeader(hdr, r.buf, r.off)
         IN  /\ Tokens(r.buf, <<>>) # <<>>
             /\ hdr' = IF h.trailer = Indeterminate THEN [h EXCEPT !.trailer = u] ELSE h
    /\ pc' = "initTrailer"
    /\ UNCHANGED <<spinVars, data, trailer, off, isLine, flLine, lsLine, lineno, file,
                   fileObjs, defs, files, db, args, stack, ret, output>>

(***************************************************************************)
(* CS::initTrailer                                                         *)
(***************************************************************************)
RECURSIVE ReadLines(_, _, _, _)
\* n calls of getLine, as in `for (i = 0; i < n; ++i) getLine(&pos, line, ..)`.
ReadLines(d, o, buf, n) ==
    IF n <= 0 THEN [off |-> o, buf |-> buf]
    ELSE LET r == getLine(d, o, buf, LineBufLen) IN ReadLines(d, r.off, r.buf, n - 1)

ParseTrailer(d, o) ==
    LET v == getLine(d, o, <<>>, LineBufLen)
        vs == ReadLines(d, v.off, v.buf, atol(v.buf))
        s == getLine(d, vs.off, vs.buf, LineBufLen)
        ss == ReadLines(d, s.off, s.buf, atol(s.buf))
        i == getLine(d, ss.off, ss.buf, LineBufLen)
    IN  [n_viewpaths |-> atol(v.buf), n_srcs |-> atol(s.buf), n_incs |-> atol(i.buf)]

InitTrailer ==
    /\ pc = "initTrailer"
    /\ trailer' = IF VALID(data, hdr.trailer) THEN ParseTrailer(data, hdr.trailer)
                  ELSE trailer
    /\ pc' = "initSymbolsEntry"
    /\ UNCHANGED <<spinVars, data, hdr, off, isLine, flLine, lsLine, lineno, file,
                   fileObjs, defs, files, db, args, stack, ret, output>>

(***************************************************************************)
(* CS::initSymbols, newFile, CSFile                                        *)
(***************************************************************************)
\* A variant of newFile whose CSFile starts with the current definition of the
\* file decoded before it.
newFileKeepCurrent(str, residue) ==
    LET c == SkipWhile(str, TRUE) IN
    [name |-> IF c = <<>> THEN residue ELSE Tail(c), mark |-> At(c, 1),
     functions |-> <<>>, current |-> IF file = 0 THEN 0 ELSE fileObjs[file].current,
     deleted |-> FALSE]

\* newFile(str) and the CSFile constructor (_current_fndef starts as nullptr).
\* When str is blank, c + 1 points past the terminating NUL, at whatever the
\* buffer held before (residue).
newFile(str, residue) ==
    LET c == SkipWhile(str, TRUE) IN
    [name |-> IF c = <<>> THEN residue ELSE Tail(c), mark |-> At(c, 1),
     functions |-> <<>>, current |-> 0, deleted |-> FALSE]

\* The prologue of initSymbols: pos.off = _hdr.syms_start, line uninitialised.
InitSymbols ==
    /\ pc = "initSymbolsEntry"
    /\ off' = hdr.syms_start
    /\ isLine' \in Garbage
    /\ pc' = "initSymbols"
    /\ UNCHANGED <<spinVars, data, hdr, trailer, flLine, lsLine, lineno, file,
                   fileObjs, defs, files, db, args, stack, ret, output>>

\* One turn of the loop of initSymbols up to the call of fileLoadSymbols, and
\* the start of fileLoadSymbols: its read of the empty line after the file record.
InitSymbolsFile ==
    /\ pc = "initSymbols"
    /\ VALID(data, off) /\ off <= hdr.trailer
    /\ \E g \in Garbage, residue \in Garbage :
         LET r == getLine(data, off, isLine, LineBufLen)
             r2 == getLine(data, r.off, g, LineBufLen)
         IN  /\ isLine' = r.buf
             /\ fileObjs' = Append(fileObjs, newFile(r.buf, residue))
             /\ file' = Len(fileObjs) + 1
             /\ flLine' = r2.buf
             /\ off' = r2.off
    /\ pc' = "fileLoadSymbols"
    /\ UNCHANGED <<spinVars, data, hdr, trailer, lsLine, lineno, defs, files, db,
                   args, stack, ret, output>>

\* The loop of initSymbols ends; CS::CS goes on to build the database.
InitSymbolsDone ==
    /\ pc = "initSymbols"
    /\ ~(VALID(data, off) /\ off <= hdr.trailer)
    /\ pc' = "buildDb"
    /\ UNCHANGED <<spinVars, data, hdr, trailer, off, isLine, flLine, lsLine, lineno, file,
                   fileObjs, defs, files, db, args, stack, ret, output>>

\* After fileLoadSymbols: a file with a name is added to CS::files.
AddFile ==
    /\ pc = "fileLoaded"
    /\ fileObjs[file].name # <<>>
    /\ files' = Append(files, file)
    /\ pc' = "initSymbols"
    /\ UNCHANGED <<spinVars, data, hdr, trailer, off, isLine, flLine, lsLine, lineno, file,
                   fileObjs, defs, db, args, stack, ret, output>>

\* After fileLoadSymbols: a no-name file is deleted.
DropFile ==
    /\ pc = "fileLoaded"
    /\ fileObjs[file].name = <<>>
    /\ fileObjs' = [fileObjs EXCEPT ![file].deleted = TRUE]
    /\ pc' = "initSymbols"
    /\ UNCHANGED <<spinVars, data, hdr, trailer, off, isLine, flLine, lsLine, lineno, file,
                   defs, files, db, args, stack, ret, output>>

(***************************************************************************)
(* fileLoadSymbols                                                         *)
(***************************************************************************)
\* The offset fileLoadSymbols restores when the line it read is a file record.
Rewind(o, line) == SizeSub(o, Len(line))

\* The loop of fileLoadSymbols ends because the cursor left the buffer.
FileLoadEnd ==
    /\ pc = "fileLoadSymbols"
    /\ ~VALID(data, off)
    /\ pc' = "fileLoaded"
    /\ UNCHANGED <<spinVars, data, hdr, trailer, off, isLine, flLine, lsLine, lineno, file,
                   fileObjs, defs, files, db, args, stack, ret, output>>

\* Case 2: the line is the next file record; un-read it and return.
FileLoadNextFile ==
    /\ pc = "fileLoadSymbols"
    /\ VALID(data, off)
    /\ LET r == getLine(data, off, flLine, LineBufLen)
           c == SkipWhile(r.buf, TRUE)
       IN  /\ At(c, 1) = "@"
           /\ flLine' = r.buf
           /\ off' = Rewind(r.off, r.buf)
    /\ pc' = "fileLoaded"
    /\ UNCHANGED <<spinVars, data, hdr, trailer, isLine, lsLine, lineno, file,
                   fileObjs, defs, files, db, args, stack, ret, output>>

\* Case 1: the line is a line-number line; loadSymbolsInFile is entered.
FileLoadLine ==
    /\ pc = "fileLoadSymbols"
    /\ VALID(data, off)
    /\ LET r == getLine(data, off, flLine, LineBufLen)
           c == SkipWhile(r.buf, TRUE)
       IN  /\ At(c, 1) # "@"
           /\ flLine' = r.buf
           /\ off' = r.off
           /\ lineno' = atol(c)
    /\ lsLine' \in Garbage
    /\ pc' = "loadSymbolsInFile"
    /\ UNCHANGED <<spinVars, data, hdr, trailer, isLine, file,
                   fileObjs, defs, files, db, args, stack, ret, output>>

(***************************************************************************)
(* loadSymbolsInFile, CSFuncDef::addCallee, CSFile::addFunctionDef         *)
(***************************************************************************)
\* The optional mark and the symbol text of a line.
Symbol(line) ==
    LET c0 == SkipWhile(line, FALSE)
        marked == At(c0, 1) = TAB /\ isMark(At(c0, 2))
    IN  [mark |-> IF marked THEN c0[2] ELSE NUL,
         c |-> IF marked THEN Drop(c0, 2) ELSE c0]

\* Neither `continue` is taken: the mark is a definition or a call, and the
\* text is not a lone mark character.
Accepted(sym) ==
    /\ sym.mark \in {CS_FN_DEF, CS_FN_CALL}
    /\ ~(isMark(At(sym.c, 1)) /\ Len(sym.c) = 1)

\* A variant of addCallee that does not look for the name first.
addCalleeAlways(callees, name) == Append(callees, name)

\* CSFuncDef::addCallee: _callees.insert, keyed by the callee name.
addCallee(callees, name) ==
    IF \E i \in 1..Len(callees) : callees[i] = name THEN callees
    ELSE Append(callees, name)

\* A variant of addFunctionDef that replaces the entry of a name already there.
addFunctionDefOverwrite(f, id, name) ==
    [f EXCEPT !.functions =
                  IF \E i \in 1..Len(f.functions) : defs[f.functions[i]].name = name
                  THEN [i \in 1..Len(f.functions) |->
                          IF defs[f.functions[i]].name = name THEN id
                          ELSE f.functions[i]]
                  ELSE Append(f.functions, id),
              !.current = id]

\* CSFile::addFunctionDef: _functions.insert keyed by name, then _current_fndef.
addFunctionDef(f, id, name) ==
    [f EXCEPT !.functions =
                  IF \E i \in 1..Len(f.functions) : defs[f.functions[i]].name = name
                  THEN f.functions
                  ELSE Append(f.functions, id),
              !.current = id]

\* The end of a turn of the loop after a symbol was taken: an empty symbol
\* text goes straight on, otherwise the line of non-symbol text is read.
AfterSymbol(r, c) == IF c = <<>> THEN r ELSE getLine(data, r.off, r.buf, LineBufLen)

\* The loop of loadSymbolsInFile ends because the cursor left the buffer.
LoadSymExit ==
    /\ pc = "loadSymbolsInFile"
    /\ ~VALID(data, off)
    /\ pc' = "fileLoadSymbols"
    /\ UNCHANGED <<spinVars, data, hdr, trailer, off, isLine, flLine, lsLine, lineno, file,
                   fileObjs, defs, files, db, args, stack, ret, output>>

\* The line is empty: end of the symbols of this source line.
LoadSymBlank ==
    /\ pc = "loadSymbolsInFile"
    /\ VALID(data, off)
    /\ LET r == getLine(data, off, lsLine, LineBufLen)
       IN  /\ r.buf = <<>>
           /\ lsLine' = r.buf
           /\ off' = r.off
    /\ pc' = "fileLoadSymbols"
    /\ UNCHANGED <<spinVars, data, hdr, trailer, isLine, flLine, lineno, file,
                   fileObjs, defs, files, db, args, stack, ret, output>>

\* The line carries no definition or call mark, or only a mark character.
LoadSymSkip ==
    /\ pc = "loadSymbolsInFile"
    /\ VALID(data, off)
    /\ LET r == getLine(data, off, lsLine, LineBufLen)
       IN  /\ r.buf # <<>>
           /\ ~Accepted(Symbol(r.buf))
           /\ lsLine' = r.buf
           /\ off' = r.off
    /\ UNCHANGED <<spinVars, data, pc, hdr, trailer, isLine, flLine, lineno, file,
                   fileObjs, defs, files, db, args, stack, ret, output>>

\* A function call while the file has no current definition: dropped.
LoadSymCallDropped ==
    /\ pc = "loadSymbolsInFile"
    /\ VALID(data, off)
    /\ LET r == getLine(data, off, lsLine, LineBufLen)
           sym == Symbol(r.buf)
       IN  /\ r.buf # <<>>
           /\ Accepted(sym)
           /\ sym.mark = CS_FN_CALL
           /\ fileObjs[file].current = 0
           /\ lsLine' = r.buf
           /\ off' = r.off
    /\ UNCHANGED <<spinVars, data, pc, hdr, trailer, isLine, flLine, lineno, file,
                   fileObjs, defs, files, db, args, stack, ret, output>>

\* A function call: added to the callees of the current definition of the file.
LoadSymCall ==
    /\ pc = "loadSymbolsInFile"
    /\ VALID(data, off)
    /\ LET r == getLine(data, off, lsLine, LineBufLen)
           sym == Symbol(r.buf)
           fndef == fileObjs[file].current
           r2 == AfterSymbol(r, sym.c)
       IN  /\ r.buf # <<>>
           /\ Accepted(sym)
           /\ sym.mark = CS_FN_CALL
           /\ fndef # 0
           /\ defs' = [defs EXCEPT ![fndef].callees = addCallee(@, sym.c)]
           /\ lsLine' = r2.buf
           /\ off' = r2.off
    /\ UNCHANGED <<spinVars, data, pc, hdr, trailer, isLine, flLine, lineno, file,
                   fileObjs, files, db, args, stack, ret, output>>

\* A function definition: allocated, registered in the file, made current.
LoadSymDef ==
    /\ pc = "loadSymbolsInFile"
    /\ VALID(data, off)
    /\ LET r == getLine(data, off, lsLine, LineBufLen)
           sym == Symbol(r.buf)
           id == Len(defs) + 1
           r2 == AfterSymbol(r, sym.c)
       IN  /\ r.buf # <<>>
           /\ Accepted(sym)
           /\ sym.mark = CS_FN_DEF
           /\ defs' = Append(defs, [name |-> sym.c, mark |-> sym.mark,
                                    line |-> lineno, file |-> file,
                                    callees |-> <<>>])
           /\ fileObjs' = [fileObjs EXCEPT ![file] = addFunctionDef(@, id, sym.c)]
           /\ lsLine' = r2.buf
           /\ off' = r2.off
    /\ UNCHANGED <<spinVars, data, pc, hdr, trailer, isLine, flLine, lineno, file,
                   files, db, args, stack, ret, output>>

(***************************************************************************)
(* CS::CS: building the database                                           *)
(***************************************************************************)
DbHas(d, name) == \E i \in 1..Len(d) : d[i].name = name
DbGet(d, name) == d[CHOOSE i \in 1..Len(d) : d[i].name = name].callees
DbKeys(d) == {d[i].name : i \in 1..Len(d)}

\* this->db->insert(pr): the entry is added only when the key is absent.
dbInsert(d, name, vec) ==
    IF DbHas(d, name) THEN d ELSE Append(d, [name |-> name, callees |-> vec])

RECURSIVE InsertFunctions(_, _)
\* The inner loop of CS::CS over the definitions of one file.
InsertFunctions(d, fns) ==
    IF fns = <<>> THEN d
    ELSE InsertFunctions(dbInsert(d, defs[fns[1]].name, defs[fns[1]].callees),
                         Tail(fns))

RECURSIVE InsertFiles(_, _)
\* The outer loop of CS::CS over CS::files.
InsertFiles(d, fs) ==
    IF fs = <<>> THEN d
    ELSE InsertFiles(InsertFunctions(d, fileObjs[fs[1]].functions), Tail(fs))

PermSeqs(s) == {[i \in 1..Len(s) |-> s[p[i]]] : p \in Permutations(1..Len(s))}

\* The iteration orders an unordered_map may give: the database in any order
\* of its keys, each callee vector in any order of the callees.
Orderings(d) ==
    LET vecs == {f \in [1..Len(d) -> UNION {PermSeqs(d[i].callees) : i \in 1..Len(d)}] :
                    \A i \in 1..Len(d) : f[i] \in PermSeqs(d[i].callees)}
    IN  UNION { PermSeqs([i \in 1..Len(d) |-> [name |-> d[i].name, callees |-> f[i]]]) :
                f \in vecs }

(***************************************************************************)
(* The spinner: startSpinner, stopSpinner, spin                            *)
(***************************************************************************)
\* startSpinner: with logging, spinning = true and spinnerThread is assigned a
\* new thread running spin; without logging, nothing. (Every call finds
\* spinnerThread not joinable, so the move assignment does not terminate.)
startSpinner ==
    /\ spinning' = IF logging THEN TRUE ELSE spinning
    /\ spinnerThread' = IF logging THEN Running ELSE spinnerThread
    /\ logging' = logging

\* The three calls of stopSpinner (end of CS::CS, after the callers, after the
\* callees), the join inside each, and where each call returns to.
StopPcs == {"stopSpinnerBuilt", "stopSpinnerCallers", "stopSpinnerCallees"}
JoinPcs == {"joinBuilt", "joinCallers", "joinCallees"}
JoinPc(p) == CASE p = "stopSpinnerBuilt" -> "joinBuilt"
               [] p = "stopSpinnerCallers" -> "joinCallers"
               [] p = "stopSpinnerCallees" -> "joinCallees"
AfterJoin(p) == CASE p = "joinBuilt" -> "main"
                  [] p = "joinCallers" -> "mainCallees"
                  [] p = "joinCallees" -> "done"

\* stopSpinner up to its call of join: spinning = false.
StopSpinner ==
    /\ pc \in StopPcs
    /\ spinning' = FALSE
    /\ pc' = JoinPc(pc)
    /\ UNCHANGED <<logging, spinnerThread, data, hdr, trailer, off, isLine, flLine,
                   lsLine, lineno, file, fileObjs, defs, files, db, args, stack,
                   ret, output>>

\* spinnerThread.join() on a thread object that is not joinable throws
\* std::system_error; nothing catches it, so std::terminate ends the program.
JoinThrows ==
    /\ pc \in JoinPcs
    /\ ~joinable(spinnerThread)
    /\ pc' = "terminate"
    /\ UNCHANGED <<spinVars, data, hdr, trailer, off, isLine, flLine, lsLine, lineno,
                   file, fileObjs, defs, files, db, args, stack, ret, output>>

\* spin: the loop `for (..; spinning; ..)` finds spinning false and the thread
\* function returns. (The read races with the write of stopSpinner; the loop
\* body calls the stream and sleep functions, so each turn reads spinning
\* again and the read that follows the write ends the loop. What the loop
\* prints on the terminal is not modelled.)
SpinExit ==
    /\ spinnerThread = Running
    /\ ~spinning
    /\ spinnerThread' = Exited
    /\ UNCHANGED <<logging, spinning, data, pc, hdr, trailer, off, isLine, flLine,
                   lsLine, lineno, file, fileObjs, defs, files, db, args, stack,
                   ret, output>>

\* spinnerThread.join() returns once spin has returned; stopSpinner returns.
JoinReturns ==
    /\ pc \in JoinPcs
    /\ spinnerThread = Exited
    /\ spinnerThread' = NotAThread
    /\ pc' = AfterJoin(pc)
    /\ UNCHANGED <<logging, spinning, data, hdr, trailer, off, isLine, flLine,
                   lsLine, lineno, file, fileObjs, defs, files, db, args, stack,
                   ret, output>>

NextSpinner ==
    \/ StopSpinner
    \/ JoinThrows
    \/ SpinExit
    \/ JoinReturns

\* The end of CS::CS: new CSDB, startSpinner, the loops that fill the database.
BuildDb ==
    /\ pc = "buildDb"
    /\ startSpinner
    /\ db' \in Orderings(InsertFiles(<<>>, files))
    /\ pc' = "stopSpinnerBuilt"
    /\ UNCHANGED <<data, hdr, trailer, off, isLine, flLine, lsLine, lineno, file,
                   fileObjs, defs, files, args, stack, ret, output>>

NextLoad ==
    \/ InitHeader
    \/ InitTrailer
    \/ InitSymbols
    \/ InitSymbolsFile
    \/ InitSymbolsDone
    \/ AddFile
    \/ DropFile
    \/ FileLoadEnd
    \/ FileLoadNextFile
    \/ FileLoadLine
    \/ LoadSymExit
    \/ LoadSymBlank
    \/ LoadSymSkip
    \/ LoadSymCallDropped
    \/ LoadSymCall
    \/ LoadSymDef
    \/ BuildDb

LoadSpec == InitLoad /\ [][NextLoad \/ NextSpinner]_vars

(***************************************************************************)
(* main: the arguments, then the callers and the callees of func_name      *)
(***************************************************************************)
QueryNames == {<<"A">>, <<"B">>, <<"C">>}

\* std::format("    {} -> {}\n", from, to)
FormatEdge(from, to) ==
    <<" ", " ", " ", " ">> \o from \o <<" ", "-", ">", " ">> \o to \o <<NL>>

\* An activation of getCallersRec or getCalleesRec: its arguments, how far its
\* loop has come, and its local string `out` (one element per appended line).
Frame(fn, depth) == [fn |-> fn, depth |-> depth, i |-> 0, out |-> <<>>]

Top == stack[Len(stack)]

\* The stack after the top activation returns v: the caller appends v to its out.
Pop(v) ==
    LET n == Len(stack) IN
    IF n = 1 THEN <<>>
    ELSE Append(SubSeq(stack, 1, n - 2), [stack[n - 1] EXCEPT !.out = @ \o v])

\* A variant of EmitAndCall whose recursive call passes depth on unchanged.
EmitAndCallSameDepth(edge, fn) ==
    Append(SubSeq(stack, 1, Len(stack) - 1),
           [Top EXCEPT !.out = Append(@, edge), !.i = @ + 1])
        \o <<Frame(fn, Top.depth)>>

\* The top activation appends edge to out, steps its loop and calls itself on fn
\* with depth - 1.
EmitAndCall(edge, fn) ==
    Append(SubSeq(stack, 1, Len(stack) - 1),
           [Top EXCEPT !.out = Append(@, edge), !.i = @ + 1])
        \o <<Frame(fn, Top.depth - 1)>>

\* A variant of the depth test that lets depth 0 through.
DepthExhaustedBelowZero(depth) == depth < 0

\* The test `if (depth <= 0) return "";` that opens both traversals.
DepthExhausted(depth) == depth <= 0

\* argv: func_name, the depth (main rejects depth <= 0; 5 when not given) and
\* the x and y options. argv is fixed before the load and first read here.
Main ==
    /\ pc = "main"
    /\ \E n \in QueryNames, d \in 1..MaxDepth, x \in BOOLEAN, y \in BOOLEAN :
         args' = [func_name |-> n, depth |-> d, do_callers |-> ~x, do_callees |-> ~y]
    /\ pc' = "mainCallers"
    /\ UNCHANGED <<spinVars, data, hdr, trailer, off, isLine, flLine, lsLine, lineno, file,
                   fileObjs, defs, files, db, stack, ret, output>>

(***************************************************************************)
(* isCallerOf, getCallersRec                                               *)
(***************************************************************************)
\* A variant of isCallerOf that gives up after the first callee of a.
isCallerOfFirst(d, a, b) == Len(DbGet(d, a)) > 0 /\ DbGet(d, a)[1] = b

\* isCallerOf(db, a, b), a being a key of db.
isCallerOf(d, a, b) == \E i \in 1..Len(DbGet(d, a)) : DbGet(d, a)[i] = b

SkipCallers ==
    /\ pc = "mainCallers"
    /\ ~args.do_callers
    /\ pc' = "mainCallees"
    /\ UNCHANGED <<spinVars, data, hdr, trailer, off, isLine, flLine, lsLine, lineno, file,
                   fileObjs, defs, files, db, args, stack, ret, output>>

\* main calls startSpinner, then getCallersRec(cs->db, func_name, depth).
StartCallers ==
    /\ pc = "mainCallers"
    /\ args.do_callers
    /\ startSpinner
    /\ stack' = <<Frame(args.func_name, args.depth)>>
    /\ pc' = "callers"
    /\ UNCHANGED <<data, hdr, trailer, off, isLine, flLine, lsLine, lineno, file,
                   fileObjs, defs, files, db, args, ret, output>>

\* if (depth <= 0) return "";
CallersDepthZero ==
    /\ pc = "callers" /\ stack # <<>>
    /\ DepthExhausted(Top.depth)
    /\ stack' = Pop(<<>>)
    /\ ret' = IF Len(stack) = 1 THEN <<>> ELSE ret
    /\ UNCHANGED <<spinVars, data, pc, hdr, trailer, off, isLine, flLine, lsLine, lineno, file,
                   fileObjs, defs, files, db, args, output>>

\* The scanned key calls fn_name: the edge is appended, then the recursive call.
CallersEmit ==
    /\ pc = "callers" /\ stack # <<>>
    /\ ~DepthExhausted(Top.depth) /\ Top.i < Len(db)
    /\ LET item == db[Top.i + 1].name IN
         /\ isCallerOf(db, item, Top.fn)
         /\ stack' = EmitAndCall(FormatEdge(item, Top.fn), item)
    /\ UNCHANGED <<spinVars, data, pc, hdr, trailer, off, isLine, flLine, lsLine, lineno, file,
                   fileObjs, defs, files, db, args, ret, output>>

\* The scanned key does not call fn_name.
CallersPass ==
    /\ pc = "callers" /\ stack # <<>>
    /\ ~DepthExhausted(Top.depth) /\ Top.i < Len(db)
    /\ ~isCallerOf(db, db[Top.i + 1].name, Top.fn)
    /\ stack' = [stack EXCEPT ![Len(stack)].i = @ + 1]
    /\ UNCHANGED <<spinVars, data, pc, hdr, trailer, off, isLine, flLine, lsLine, lineno, file,
                   fileObjs, defs, files, db, args, ret, output>>

\* The scan is over: return out.
CallersReturn ==
    /\ pc = "callers" /\ stack # <<>>
    /\ ~DepthExhausted(Top.depth) /\ Top.i >= Len(db)
    /\ stack' = Pop(Top.out)
    /\ ret' = IF Len(stack) = 1 THEN Top.out ELSE ret
    /\ UNCHANGED <<spinVars, data, pc, hdr, trailer, off, isLine, flLine, lsLine, lineno, file,
                   fileObjs, defs, files, db, args, output>>

\* main prints the callers block when the string is not empty.
CallersDone ==
    /\ pc = "callers" /\ stack = <<>>
    /\ output' = IF Len(ret) > 0
                 THEN Append(output, [title |-> "Callers to", name |-> args.func_name,
                                      edges |-> ret])
                 ELSE output
    /\ pc' = "stopSpinnerCallers"
    /\ UNCHANGED <<spinVars, data, hdr, trailer, off, isLine, flLine, lsLine, lineno, file,
                   fileObjs, defs, files, db, args, stack, ret>>

(***************************************************************************)
(* getCalleesRec                                                           *)
(***************************************************************************)
InsertAt(d, k, e) == SubSeq(d, 1, k) \o <<e>> \o SubSeq(d, k + 1, Len(d))

\* The databases (*db)[name] may leave: operator[] of an unordered_map adds an
\* entry with an empty vector when the key is absent, anywhere in the
\* iteration order.
Subscript(d, name) ==
    IF DbHas(d, name) THEN {d}
    ELSE {InsertAt(d, k, [name |-> name, callees |-> <<>>]) : k \in 0..Len(d)}

\* The databases a call getCalleesRec(db, fn, depth) may leave on entry: with
\* depth > 0 the range of its loop is (*db)[fn].
CalleesEntry(d, fn, depth) == IF DepthExhausted(depth) THEN {d} ELSE Subscript(d, fn)

SkipCallees ==
    /\ pc = "mainCallees"
    /\ ~args.do_callees
    /\ pc' = "done"
    /\ UNCHANGED <<spinVars, data, hdr, trailer, off, isLine, flLine, lsLine, lineno, file,
                   fileObjs, defs, files, db, args, stack, ret, output>>

\* main calls startSpinner, then getCalleesRec(cs->db, func_name, depth).
StartCallees ==
    /\ pc = "mainCallees"
    /\ args.do_callees
    /\ startSpinner
    /\ stack' = <<Frame(args.func_name, args.depth)>>
    /\ db' \in CalleesEntry(db, args.func_name, args.depth)
    /\ ret' = <<>>
    /\ pc' = "callees"
    /\ UNCHANGED <<data, hdr, trailer, off, isLine, flLine, lsLine, lineno, file,
                   fileObjs, defs, files, args, output>>

\* if (depth <= 0) return "";
CalleesDepthZero ==
    /\ pc = "callees" /\ stack # <<>>
    /\ DepthExhausted(Top.depth)
    /\ stack' = Pop(<<>>)
    /\ ret' = IF Len(stack) = 1 THEN <<>> ELSE ret
    /\ UNCHANGED <<spinVars, data, pc, hdr, trailer, off, isLine, flLine, lsLine, lineno, file,
                   fileObjs, defs, files, db, args, output>>

\* The next callee of fn_name: the edge is appended, then the recursive call.
CalleesEmit ==
    /\ pc = "callees" /\ stack # <<>>
    /\ ~DepthExhausted(Top.depth) /\ Top.i < Len(DbGet(db, Top.fn))
    /\ LET callee == DbGet(db, Top.fn)[Top.i + 1] IN
         /\ stack' = EmitAndCall(FormatEdge(Top.fn, callee), callee)
         /\ db' \in CalleesEntry(db, callee, Top.depth - 1)
    /\ UNCHANGED <<spinVars, data, pc, hdr, trailer, off, isLine, flLine, lsLine, lineno, file,
                   fileObjs, defs, files, args, ret, output>>

\* The loop is over: return out.
CalleesReturn ==
    /\ pc = "callees" /\ stack # <<>>
    /\ ~DepthExhausted(Top.depth) /\ Top.i >= Len(DbGet(db, Top.fn))
    /\ stack' = Pop(Top.out)
    /\ ret' = IF Len(stack) = 1 THEN Top.out ELSE ret
    /\ UNCHANGED <<spinVars, data, pc, hdr, trailer, off, isLine, flLine, lsLine, lineno, file,
                   fileObjs, defs, files, db, args, output>>

\* main prints the callees block when the string is not empty; stopSpinner and
\* the end of main follow.
CalleesDone ==
    /\ pc = "callees" /\ stack = <<>>
    /\ output' = IF Len(ret) > 0
                 THEN Append(output, [title |-> "Callees of", name |-> args.func_name,
                                      edges |-> ret])
                 ELSE output
    /\ pc' = "stopSpinnerCallees"
    /\ UNCHANGED <<spinVars, data, hdr, trailer, off, isLine, flLine, lsLine, lineno, file,
                   fileObjs, defs, files, db, args, stack, ret>>

NextQuery ==
    \/ Main
    \/ SkipCallers
    \/ StartCallers
    \/ CallersDepthZero
    \/ CallersEmit
    \/ CallersPass
    \/ CallersReturn
    \/ CallersDone
    \/ SkipCallees
    \/ StartCallees
    \/ CalleesDepthZero
    \/ CalleesEmit
    \/ CalleesReturn
    \/ CalleesDone

(***************************************************************************)
(* The whole program, run on databases that decode to the call graphs over *)
(* the definitions A and B with callees among A, B and C.                  *)
(***************************************************************************)
AscendingSeqs(S, n) ==
    {q \in SeqsUpTo(1..Len(S), n) : \A i \in 1..(Len(q) - 1) : q[i] < q[i + 1]}

\* The bodies defining name: the definition record and its call records.
DefBlocks(name) ==
    LET callees == <<"A", "B", "C">> IN
    {<<Def(name)>> \o [i \in 1..Len(q) |-> Call(callees[q[i]])] :
        q \in AscendingSeqs(callees, MaxCallees)}

GraphBodies ==
    {a \o b : a \in DefBlocks("A") \cup {<<>>}, b \in DefBlocks("B") \cup {<<>>}}

\* Bodies that are not plain graphs: an over-long record, a second file, a
\* call before any definition, a file record that is dropped.
OtherBodies ==
    { <<Call("C"), Def("A"), Call("A"), Long>>,
      <<Def("A"), Call("B"), FileBare, Def("B"), Call("C")>>,
      <<Def("A"), Call("B"), FileTab, Def("A"), Call("C")>> }

Inputs ==
    {Render(GoodTag, b) : b \in GraphBodies \cup OtherBodies}
        \cup {Render(BadTag, b) : b \in {<<Def("A"), Call("B")>>} \cup OtherBodies}

Init == \E d \in Inputs : InitState(d)

Next == NextLoad \/ NextQuery \/ NextSpinner

Spec == Init /\ [][Next]_vars

\* Once main runs its queries it is one thread that goes on until it returns,
\* and the spinner thread is scheduled.
FairSpec == Spec /\ WF_vars(NextQuery) /\ WF_vars(NextSpinner)

(***************************************************************************)
(* The properties of the loader and of the queries.                        *)
(***************************************************************************)
Range(s) == {s[i] : i \in 1..Len(s)}
NoDuplicates(s) == \A i, j \in 1..Len(s) : s[i] = s[j] => i = j

\* The header line of the file and whether its first token is the tag.
HeaderLine == getLine(data, 0, <<>>, LineBufLen).buf
HeaderTagBad == ~TagMatches(Tokens(HeaderLine, <<>>)[1])

\* The call graph a database stands for: each key with its set of callees.
GraphOf(d) == [k \in DbKeys(d) |-> Range(DbGet(d, k))]

\* The positions of main at which a query is running or has been answered, and
\* the positions after CS::CS has built the call graph.
QueryPcs == {"callers", "callees", "done"}
BuiltPcs == {"main", "mainCallers", "mainCallees"} \cup QueryPcs

\* C1: when the first token of the header line is not the tag "cscope" the load
\* is aborted: the trailer is not decoded, no file or definition of the symbol
\* region is decoded, no call graph is built and no callers or callees query is
\* answered.
C1_BadTagAbortsLoad ==
    HeaderTagBad =>
        /\ trailer.n_viewpaths = Indeterminate
        /\ fileObjs = <<>> /\ defs = <<>>
        /\ pc \notin BuiltPcs
        /\ pc \notin QueryPcs /\ output = <<>>

\* C2: once the call graph is built, no step of a callers or callees query
\* changes its key set or the callee set of any key.
C2_GraphReadOnly == [][(pc \in BuiltPcs) => (GraphOf(db') = GraphOf(db))]_vars

\* The edge lines "    A -> B\n", "    B -> C\n" and "    A -> A\n", spelled out.
EdgeAB == <<" ", " ", " ", " ", "A", " ", "-", ">", " ", "B", NL>>
EdgeBC == <<" ", " ", " ", " ", "B", " ", "-", ">", " ", "C", NL>>
EdgeAA == <<" ", " ", " ", " ", "A", " ", "-", ">", " ", "A", NL>>
EdgeLine(from, to) == <<" ", " ", " ", " ">> \o from \o <<" ", "-", ">", " ">> \o to \o <<NL>>

RECURSIVE E(_, _, _), EFrom(_, _, _, _)
\* E(n, k) on the graph d: empty when k <= 0 or n is not a key, otherwise for
\* each callee c of n in stored order the edge n -> c followed by E(c, k - 1).
E(d, n, k) == IF k <= 0 \/ n \notin DbKeys(d) THEN <<>> ELSE EFrom(d, n, k, 1)
EFrom(d, n, k, i) ==
    LET cs == DbGet(d, n) IN
    IF i > Len(cs) THEN <<>>
    ELSE <<EdgeLine(n, cs[i])>> \o E(d, cs[i], k - 1) \o EFrom(d, n, k, i + 1)

CalleesAnswered == pc = "callees" /\ stack = <<>>
CallersAnswered == pc = "callers" /\ stack = <<>>

\* The graph holds A -> B and B -> C and nothing else under A and B.
ChainGraph ==
    /\ <<"A">> \in DbKeys(db) /\ DbGet(db, <<"A">>) = <<<<"B">>>>
    /\ <<"B">> \in DbKeys(db) /\ DbGet(db, <<"B">>) = <<<<"C">>>>

\* C3: computeCallees(name, depth) returns exactly E(name, depth); on the graph
\* A -> B, B -> C with depth 2 that is the line of A -> B, then the line of
\* B -> C; the callees block main prints carries the same lines.
C3_CalleesExact ==
    /\ CalleesAnswered => ret = E(db, args.func_name, args.depth)
    /\ (CalleesAnswered /\ ChainGraph /\ args.func_name = <<"A">> /\ args.depth = 2)
          => ret = <<EdgeAB, EdgeBC>>
    /\ (pc = "done" /\ args.do_callees /\ ret # <<>>)
          => output[Len(output)] = [title |-> "Callees of", name |-> args.func_name,
                                    edges |-> E(db, args.func_name, args.depth)]

\* computeCallees(A, 2) has returned A -> B then B -> C.
C3_Witness ==
    /\ CalleesAnswered /\ ChainGraph
    /\ args.func_name = <<"A">> /\ args.depth = 2
    /\ ret = <<EdgeAB, EdgeBC>>

\* The recursion is k activations deep with depth lowered by one per call.
NestingBound ==
    pc \in {"callers", "callees"} =>
        /\ Len(stack) <= args.depth + 1
        /\ \A k \in 1..Len(stack) : stack[k].depth = args.depth - (k - 1)

\* The graph whose only edge is A -> A.
SelfLoopGraph == GraphOf(db) = (<<"A">> :> {<<"A">>})

SelfLoopThree ==
    (CalleesAnswered /\ SelfLoopGraph /\ args.func_name = <<"A">> /\ args.depth = 3)
        => ret = <<EdgeAA, EdgeAA, EdgeAA>>

\* C4: both traversals terminate on every graph, cyclic ones included, for
\* every depth: each recursive call lowers depth by one, the recursion is never
\* deeper than depth, a query that was started is answered, and on the graph
\* whose only edge is A -> A computeCallees(A, 3) returns three A -> A lines.
C4_QueriesTerminate ==
    /\ [](NestingBound /\ SelfLoopThree)
    /\ (pc = "callers") ~> (pc = "mainCallees")
    /\ (pc = "callees") ~> (pc = "done")

\* computeCallees(A, 3) on the self loop has returned its three lines.
C4_Witness ==
    /\ CalleesAnswered /\ SelfLoopGraph
    /\ args.func_name = <<"A">> /\ args.depth = 3
    /\ ret = <<EdgeAA, EdgeAA, EdgeAA>>

\* The keys of d, in scan order, whose callee set contains n.
CallersOf(d, n) == SelectSeq([i \in 1..Len(d) |-> d[i].name],
                             LAMBDA a : n \in Range(DbGet(d, a)))

RECURSIVE R(_, _, _), RFrom(_, _, _, _)
\* The callers result: nothing when k <= 0, otherwise for each caller a of n in
\* scan order the edge a -> n followed by the result for (a, k - 1).
R(d, n, k) == IF k <= 0 THEN <<>> ELSE RFrom(d, n, k, CallersOf(d, n))
RFrom(d, n, k, as) ==
    IF as = <<>> THEN <<>>
    ELSE <<EdgeLine(as[1], n)>> \o R(d, as[1], k - 1) \o RFrom(d, n, k, Tail(as))

\* C5: computeCallers(B, 1) returns one edge A -> B per key A whose callee set
\* contains B, in the scan order of the keys, and nothing else; with a larger
\* depth each edge is followed by the result of computeCallers(A, depth - 1).
C5_CallersExact ==
    /\ CallersAnswered => ret = R(db, args.func_name, args.depth)
    /\ (CallersAnswered /\ args.depth = 1) =>
          LET as == CallersOf(db, args.func_name) IN
          ret = [i \in 1..Len(as) |-> EdgeLine(as[i], args.func_name)]

\* computeCallers with depth 2 has returned the edges of two callers, the
\* callers of the first between them.
C5_Witness ==
    /\ CallersAnswered /\ args.depth = 2
    /\ Len(CallersOf(db, args.func_name)) = 2
    /\ Len(ret) >= 3

\* The definitions decoded in files that CS::files retains, and the first of
\* them (in decode order) that carries the name n.
Retained(id) == defs[id].file \in Range(files)
DefinedNames == {defs[id].name : id \in {j \in 1..Len(defs) : Retained(j)}}
FirstDefOf(n) ==
    CHOOSE id \in 1..Len(defs) :
        /\ Retained(id) /\ defs[id].name = n
        /\ \A j \in 1..(id - 1) : ~(Retained(j) /\ defs[j].name = n)

\* C6: the first registration of a name wins. Within a file only the first
\* definition record of a name is registered; across the files of the database
\* the first file, in decode order, that defines the name supplies the entry:
\* graph[name] is exactly the callee set collected under that first definition.
C6_FirstRegistrationWins ==
    /\ \A f \in 1..Len(fileObjs) : \A k \in 1..Len(fileObjs[f].functions) :
          LET id == fileObjs[f].functions[k] IN
          /\ defs[id].file = f
          /\ \A j \in 1..(id - 1) : ~(defs[j].file = f /\ defs[j].name = defs[id].name)
    /\ pc = "main" =>
          /\ DbKeys(db) = DefinedNames
          /\ \A n \in DefinedNames :
                Range(DbGet(db, n)) = Range(defs[FirstDefOf(n)].callees)

\* A is defined twice in the first file and once more in the second, each time
\* with another callee, and the graph has been built.
C6_Witness ==
    /\ pc = "main" /\ Len(defs) = 3 /\ files = <<1, 2>>
    /\ \A id \in 1..3 : defs[id].name = <<"A">>
    /\ defs[1].file = 1 /\ defs[2].file = 1 /\ defs[3].file = 2
    /\ defs[1].callees = <<<<"B">>>> /\ defs[2].callees = <<<<"C">>>>
    /\ defs[3].callees = <<<<"A">>>>
    /\ GraphOf(db) = (<<"A">> :> {<<"B">>})

\* The step decodes a function-call record while the file has a current definition.
CallRecordStep ==
    /\ pc = "loadSymbolsInFile" /\ VALID(data, off)
    /\ LET line == getLine(data, off, lsLine, LineBufLen).buf IN
         /\ line # <<>> /\ Accepted(Symbol(line))
         /\ Symbol(line).mark = CS_FN_CALL
    /\ fileObjs[file].current # 0

Occurrences(s, x) == Cardinality({i \in 1..Len(s) : s[i] = x})

NoDuplicateEdges ==
    /\ \A id \in 1..Len(defs) : NoDuplicates(defs[id].callees)
    /\ NoDuplicates([i \in 1..Len(db) |-> db[i].name])
    /\ \A i \in 1..Len(db) : NoDuplicates(db[i].callees)

\* C7: however many call records name the same callee under one definition,
\* the callee set of that definition holds the name once: after each call
\* record the name is there exactly once, and neither a callee set nor the
\* built graph ever holds an edge twice.
C7_CalleesDeduplicated ==
    /\ []NoDuplicateEdges
    /\ [][CallRecordStep =>
            LET name == Symbol(getLine(data, off, lsLine, LineBufLen).buf).c IN
            Occurrences(defs'[fileObjs[file].current].callees, name) = 1]_vars

\* Four call records under A, three of them to B, and the graph built from them.
C7_Witness ==
    /\ data = Render(GoodTag, <<Def("A"), Call("B"), Call("B"), Call("C"), Call("B")>>)
    /\ pc = "main"
    /\ GraphOf(db) = (<<"A">> :> {<<"B">>, <<"C">>})
    /\ Len(db[1].callees) = 2

\* The step decodes a function-call record of a file that has had no
\* function-definition record yet.
CallBeforeFirstDef ==
    /\ pc = "loadSymbolsInFile" /\ VALID(data, off)
    /\ LET line == getLine(data, off, lsLine, LineBufLen).buf IN
         /\ line # <<>> /\ Accepted(Symbol(line))
         /\ Symbol(line).mark = CS_FN_CALL
    /\ \A id \in 1..Len(defs) : defs[id].file # file

\* C8: a call record decoded before the first definition record of its file
\* is dropped: no callee set, definition or file changes, also when an earlier
\* file has a current definition, and the loop goes on; the graph built from
\* a.c defining A and b.c with a call to C before its definition B has no edge
\* from A.
C8_CallBeforeDefDropped ==
    /\ [][CallBeforeFirstDef =>
            /\ defs' = defs /\ fileObjs' = fileObjs /\ files' = files
            /\ pc' = "loadSymbolsInFile"]_vars
    /\ []((pc = "main" /\ data = Render(GoodTag, <<Def("A"), FileTab, Call("C"),
                                                   Def("B"), Call("C")>>))
            => GraphOf(db) = (<<"A">> :> {} @@ <<"B">> :> {<<"C">>}))

\* The call record that opens the second file has just been read and dropped,
\* the first file having a current definition.
C8_Witness ==
    /\ pc = "loadSymbolsInFile" /\ file = 2
    /\ fileObjs[1].current # 0
    /\ \A id \in 1..Len(defs) : defs[id].file # file
    /\ Symbol(lsLine).mark = CS_FN_CALL
    /\ off > Len(lsLine)
    /\ lsLine = SubSeq(data, off - Len(lsLine), off - 1)

\* The step of fileLoadSymbols reads a file record and rewinds.
RewindStep ==
    /\ pc = "fileLoadSymbols" /\ VALID(data, off)
    /\ At(SkipWhile(getLine(data, off, flLine, LineBufLen).buf, TRUE), 1) = "@"

\* C9: when fileLoadSymbols reads a file record and rewinds, the offset is again
\* the offset at which that line started, and a readLine there returns the
\* text that was un-read.
C9_RewindRestoresLineStart ==
    [][RewindStep =>
         /\ off' = off
         /\ getLine(data, off', <<>>, LineBufLen).buf = flLine']_vars

\* C10: a readLine that fails, its line longer than the buffer or cut off by
\* the end of the file, hands its caller an empty record, and the cursor goes
\* on to the following line.
C10_FailedReadIsEmpty ==
    [][/\ (pc = "fileLoadSymbols" /\ VALID(data, off)
              /\ GetLineFails(data, off, LineBufLen))
          => (flLine' = <<>> /\ off' = getLine(data, off, flLine, LineBufLen).off)
       /\ (pc = "loadSymbolsInFile" /\ VALID(data, off)
              /\ GetLineFails(data, off, LineBufLen))
          => (lsLine' = <<>> /\ off' = getLine(data, off, lsLine, LineBufLen).off
                /\ pc' = "fileLoadSymbols")]_vars

\* C11: in every run, with logging or without, each call of stopSpinner finds
\* in spinnerThread a thread that a startSpinner started and that has not been
\* joined yet, and no run joins a thread that was never started.
C11_StopAfterStart ==
    /\ pc \in StopPcs \cup JoinPcs => joinable(spinnerThread)
    /\ pc # "terminate"

====
